---- MODULE Spec2Model ----
(***************************************************************************)
(* Model of the car-number roster program (RMC car number statistics).     *)
(* One program run reads the roster file, applies one operation chosen by  *)
(* the mode (1 bulk update with increment, 2 bulk update with freeze,      *)
(* 3 single add/modify, 4 delete, 5 write only) and rewrites the file.     *)
(* The text of the file is modelled character by character: a line is a    *)
(* sequence of characters and the file is the sequence of its lines.       *)
(* Characters are atoms; the Chinese characters of the source are written  *)
(* in pinyin (che hao = the two characters of the header marker).          *)
(***************************************************************************)
EXTENDS Integers, Sequences, FiniteSets, TLC

VARIABLES file, tables, pc, op, tokens, rec

vars == <<file, tables, pc, op, tokens, rec>>

(***************************************************************************)
(* Bounds of the model and the program's constant.                         *)
(***************************************************************************)
MaxNum == 1
MaxTokens == 3
MAX_UNUSED == 3

(***************************************************************************)
(* Characters.                                                             *)
(***************************************************************************)
SP == " "
TAB == "\t"
che == "che"
hao == "hao"
Digits == <<"0", "1", "2", "3", "4", "5", "6", "7", "8", "9">>
DigitSet == {Digits[i] : i \in 1..10}
None == <<>>
NoKey == "none"
NoName == <<>>

Range(s) == {s[i] : i \in DOMAIN s}

(***************************************************************************)
(* Python string primitives used by the program.                           *)
(***************************************************************************)
isspace(ch) == ch \in {SP, TAB}

isdigit(tok) == tok # <<>> /\ \A i \in DOMAIN tok : tok[i] \in DigitSet

DigitVal(ch) == CHOOSE d \in 0..9 : Digits[d + 1] = ch

RECURSIVE int(_)
int(tok) ==
  IF tok = <<>> THEN 0
  ELSE int(SubSeq(tok, 1, Len(tok) - 1)) * 10 + DigitVal(tok[Len(tok)])

RECURSIVE str(_)
str(n) == IF n < 10 THEN <<Digits[n + 1]>> ELSE str(n \div 10) \o <<Digits[(n % 10) + 1]>>

RECURSIVE lstrip(_)
lstrip(s) == IF s # <<>> /\ isspace(Head(s)) THEN lstrip(Tail(s)) ELSE s

RECURSIVE rstrip(_)
rstrip(s) ==
  IF s # <<>> /\ isspace(s[Len(s)]) THEN rstrip(SubSeq(s, 1, Len(s) - 1)) ELSE s

strip(s) == rstrip(lstrip(s))

\* Number of leading characters of s that satisfy the class test.
RECURSIVE RunOfSpace(_)
RunOfSpace(s) == IF s # <<>> /\ isspace(Head(s)) THEN 1 + RunOfSpace(Tail(s)) ELSE 0

RECURSIVE RunOfTab(_)
RunOfTab(s) == IF s # <<>> /\ Head(s) = TAB THEN 1 + RunOfTab(Tail(s)) ELSE 0

RECURSIVE RunOfWord(_)
RunOfWord(s) == IF s # <<>> /\ ~isspace(Head(s)) THEN 1 + RunOfWord(Tail(s)) ELSE 0

\* str.split(): the maximal runs of non-whitespace characters.
RECURSIVE split(_)
split(s) ==
  LET t == lstrip(s)
      k == RunOfWord(t)
  IN  IF t = <<>> THEN <<>>
      ELSE <<SubSeq(t, 1, k)>> \o split(SubSeq(t, k + 1, Len(t)))

\* sub in s
Contains(sub, s) ==
  \E i \in 1..(Len(s) - Len(sub) + 1) : SubSeq(s, i, i + Len(sub) - 1) = sub

startswith(s, prefix) ==
  Len(s) >= Len(prefix) /\ SubSeq(s, 1, Len(prefix)) = prefix

\* Length of the match of (?:\t{2,}|\s{3,}) at the head of s, 0 if none:
\* the first alternative is tried first and both are greedy.
SepLen(s) ==
  IF RunOfTab(s) >= 2 THEN RunOfTab(s)
  ELSE IF RunOfSpace(s) >= 3 THEN RunOfSpace(s)
  ELSE 0

\* re.split(r'(?:\t{2,}|\s{3,})', s)
RECURSIVE re_split_from(_, _)
re_split_from(s, i) ==
  IF i > Len(s) THEN <<s>>
  ELSE LET k == SepLen(SubSeq(s, i, Len(s)))
       IN  IF k > 0
           THEN <<SubSeq(s, 1, i - 1)>> \o re_split_from(SubSeq(s, i + k, Len(s)), 1)
           ELSE re_split_from(s, i + 1)

re_split(s) == re_split_from(s, 1)

(***************************************************************************)
(* parse_entry_tokens: "[name] number [unused]" -> (number, unused, name)  *)
(* or None.  A record is the tuple <<number, unused, name>>.               *)
(***************************************************************************)
\* Variant: a numeric first token followed by a token that is not numeric is
\* read as the number alone.
parse_entry_tokens_lenient(toks) ==
  IF toks = <<>> THEN None
  ELSE IF isdigit(toks[1])
  THEN IF Len(toks) >= 2 /\ isdigit(toks[2])
       THEN <<int(toks[1]), int(toks[2]), NoName>>
       ELSE <<int(toks[1]), 0, NoName>>
  ELSE IF Len(toks) >= 2 /\ isdigit(toks[2])
       THEN IF Len(toks) >= 3 /\ isdigit(toks[3])
            THEN <<int(toks[2]), int(toks[3]), toks[1]>>
            ELSE <<int(toks[2]), 0, toks[1]>>
       ELSE None

parse_entry_tokens(toks) ==
  IF toks = <<>> THEN None
  ELSE IF isdigit(toks[1])
  THEN IF Len(toks) >= 2 /\ isdigit(toks[2])
       THEN <<int(toks[1]), int(toks[2]), NoName>>
       ELSE IF Len(toks) = 1
       THEN <<int(toks[1]), 0, NoName>>
       ELSE None
  ELSE IF Len(toks) >= 2 /\ isdigit(toks[2])
       THEN IF Len(toks) >= 3 /\ isdigit(toks[3])
            THEN <<int(toks[2]), int(toks[3]), toks[1]>>
            ELSE <<int(toks[2]), 0, toks[1]>>
       ELSE None

\* "if rec: append(rec)": the records a token list contributes.
RecsOf(toks) ==
  IF parse_entry_tokens(toks) = None THEN <<>> ELSE <<parse_entry_tokens(toks)>>

(***************************************************************************)
(* sorted(rows, key=lambda x: x[0]): stable, ascending by number.          *)
(***************************************************************************)
\* Variant: the order reversed.
KeyGE(a, b) == a[1] >= b[1]

KeyLE(a, b) == a[1] <= b[1]

RECURSIVE InsertSorted(_, _)
InsertSorted(r, s) ==
  IF s = <<>> THEN <<r>>
  ELSE IF KeyLE(s[Len(s)], r) THEN Append(s, r)
  ELSE Append(InsertSorted(r, SubSeq(s, 1, Len(s) - 1)), s[Len(s)])

RECURSIVE sorted(_)
sorted(rows) ==
  IF rows = <<>> THEN <<>>
  ELSE InsertSorted(rows[Len(rows)], sorted(SubSeq(rows, 1, Len(rows) - 1)))

(***************************************************************************)
(* read_tables_from_txt.                                                   *)
(***************************************************************************)
C1str == <<"C", "1">>
C2str == <<"C", "2">>
Marker == <<che, hao>>

NoTables == [C1 |-> <<>>, C2 |-> <<>>]

side_by_side(lines) ==
  \E i \in DOMAIN lines :
    strip(lines[i]) # <<>> /\ Contains(C1str, lines[i]) /\ Contains(C2str, lines[i])

\* Header and title lines of the side-by-side layout.
SkippedLine(stripped) ==
  \/ Contains(Marker, stripped)
  \/ /\ Contains(C1str, stripped)
     /\ Contains(C2str, stripped)
     /\ ~ \E i \in DOMAIN stripped : stripped[i] \in DigitSet

\* The records one raw line of the side-by-side layout adds to C1 and C2.
SideLine(raw_line) ==
  LET stripped == strip(raw_line)
      parts == re_split(raw_line)
  IN  IF stripped = <<>> THEN NoTables
      ELSE IF SkippedLine(stripped) THEN NoTables
      ELSE IF isspace(raw_line[1])
      THEN [C1 |-> <<>>, C2 |-> RecsOf(split(stripped))]
      ELSE IF Len(parts) >= 2
      THEN [C1 |-> RecsOf(split(strip(parts[1]))),
            C2 |-> RecsOf(split(strip(parts[2])))]
      ELSE [C1 |-> RecsOf(split(stripped)), C2 |-> <<>>]

RECURSIVE ReadSide(_)
ReadSide(lines) ==
  IF lines = <<>> THEN NoTables
  ELSE LET rest == ReadSide(SubSeq(lines, 1, Len(lines) - 1))
           here == SideLine(lines[Len(lines)])
       IN  [C1 |-> rest.C1 \o here.C1, C2 |-> rest.C2 \o here.C2]

\* Sequential (block) layout: st = [key, t] after the lines read so far.
SeqLine(st, ln) ==
  LET line == strip(ln)
  IN  IF line = <<>> THEN st
      ELSE IF line = C1str THEN [st EXCEPT !.key = "C1"]
      ELSE IF line = C2str THEN [st EXCEPT !.key = "C2"]
      ELSE IF startswith(line, Marker) THEN st
      ELSE IF st.key # NoKey
      THEN [st EXCEPT !.t[st.key] = @ \o RecsOf(split(line))]
      ELSE st

RECURSIVE ReadSeq(_)
ReadSeq(lines) ==
  IF lines = <<>> THEN [key |-> NoKey, t |-> NoTables]
  ELSE SeqLine(ReadSeq(SubSeq(lines, 1, Len(lines) - 1)), lines[Len(lines)])

read_tables_from_txt(lines) ==
  LET t == IF side_by_side(lines) THEN ReadSide(lines) ELSE ReadSeq(lines).t
  IN  [C1 |-> sorted(t.C1), C2 |-> sorted(t.C2)]

(***************************************************************************)
(* update_table_rows.  The dict d is a function number -> <<unused, name>>;*)
(* a later row with the same number overwrites an earlier one.             *)
(***************************************************************************)
Numbers(rows) == {rows[i][1] : i \in DOMAIN rows}

LastRow(rows, n) ==
  rows[CHOOSE i \in DOMAIN rows :
         rows[i][1] = n /\ \A j \in DOMAIN rows : rows[j][1] = n => j <= i]

DictOf(rows) == [n \in Numbers(rows) |-> <<LastRow(rows, n)[2], LastRow(rows, n)[3]>>]

\* [(num, unused, name) for num, (unused, name) in d.items()], then sorted.
\* The keys of a dict are distinct, so the order of the items does not show
\* in the sorted list; the items are listed here from the largest number down.
RECURSIVE Items(_)
Items(d) ==
  IF DOMAIN d = {} THEN <<>>
  ELSE LET n == CHOOSE m \in DOMAIN d : \A k \in DOMAIN d : k <= m
       IN  <<<<n, d[n][1], d[n][2]>>>> \o Items([k \in DOMAIN d \ {n} |-> d[k]])

\* Variant: a record is kept at the threshold and dropped only above it.
ExpiredLate(new_unused, max_unused) == new_unused > max_unused

Expired(new_unused, max_unused) == new_unused >= max_unused

\* Variant: the numbers that did not appear are counted up but never dropped.
AgeAbsentNoExpiry(d, new_set, max_unused, increment_absent) ==
  IF increment_absent
  THEN [n \in DOMAIN d |-> IF n \in new_set THEN d[n] ELSE <<d[n][1] + 1, d[n][2]>>]
  ELSE d

\* Variant: the policy flag is ignored and the absent numbers always age.
AgeAbsentAlways(d, new_set, max_unused, increment_absent) ==
  [n \in {m \in DOMAIN d : m \in new_set \/ ~(d[m][1] + 1 >= max_unused)} |->
     IF n \in new_set THEN d[n] ELSE <<d[n][1] + 1, d[n][2]>>]

\* Lines 160-176: the numbers that did not appear.
AgeAbsent(d, new_set, max_unused, increment_absent) ==
  IF increment_absent
  THEN [n \in {m \in DOMAIN d : m \in new_set \/ ~Expired(d[m][1] + 1, max_unused)} |->
          IF n \in new_set THEN d[n] ELSE <<d[n][1] + 1, d[n][2]>>]
  ELSE d

\* Variant: only new numbers are added; a number that existed is not reset.
ResetSeenNewOnly(d, new_set) ==
  [n \in DOMAIN d \cup new_set |-> IF n \in DOMAIN d THEN d[n] ELSE <<0, NoName>>]

\* Lines 178-185: the numbers that appeared.
ResetSeen(d, new_set) ==
  [n \in DOMAIN d \cup new_set |->
     IF n \in new_set
     THEN IF n \in DOMAIN d THEN <<0, d[n][2]>> ELSE <<0, NoName>>
     ELSE d[n]]

update_table_rows(rows, new_numbers, max_unused, increment_absent) ==
  sorted(Items(ResetSeen(AgeAbsent(DictOf(rows), new_numbers, max_unused, increment_absent),
                         new_numbers)))

(***************************************************************************)
(* set_single_entry.                                                       *)
(***************************************************************************)
\* Variant: the given name always replaces the stored one.
SetInDictOverwrite(d, car_no, new_unused, name, max_unused) ==
  IF new_unused >= max_unused
  THEN [n \in DOMAIN d \ {car_no} |-> d[n]]
  ELSE [n \in DOMAIN d \cup {car_no} |-> IF n # car_no THEN d[n] ELSE <<new_unused, name>>]

\* Variant: an idle count at the threshold is stored instead of deleting.
SetInDictNoDelete(d, car_no, new_unused, name, max_unused) ==
  [n \in DOMAIN d \cup {car_no} |->
     IF n # car_no THEN d[n]
     ELSE IF car_no \notin DOMAIN d THEN <<new_unused, name>>
     ELSE <<new_unused, IF name # NoName THEN name ELSE d[car_no][2]>>]

SetInDict(d, car_no, new_unused, name, max_unused) ==
  IF new_unused >= max_unused
  THEN [n \in DOMAIN d \ {car_no} |-> d[n]]
  ELSE [n \in DOMAIN d \cup {car_no} |->
          IF n # car_no THEN d[n]
          ELSE IF car_no \notin DOMAIN d THEN <<new_unused, name>>
          ELSE <<new_unused, IF name # NoName THEN name ELSE d[car_no][2]>>]

set_single_entry(tbls, table_key, car_no, new_unused, name, max_unused) ==
  [tbls EXCEPT ![table_key] =
     sorted(Items(SetInDict(DictOf(tbls[table_key]), car_no, new_unused, name, max_unused)))]

(***************************************************************************)
(* delete_entry (lines 340-345): the filtered table and the removed count. *)
(***************************************************************************)
RECURSIVE Keep(_, _)
Keep(rows, to_remove) ==
  IF rows = <<>> THEN <<>>
  ELSE IF Head(rows)[1] \in to_remove THEN Keep(Tail(rows), to_remove)
  ELSE <<Head(rows)>> \o Keep(Tail(rows), to_remove)

delete_rows(rows, to_remove) == sorted(Keep(rows, to_remove))

\* Variant: the size of the requested set is reported.
requested_count(rows, to_remove) == Cardinality(to_remove)

removed_count(rows, to_remove) == Len(rows) - Len(delete_rows(rows, to_remove))

(***************************************************************************)
(* write_tables_to_txt.                                                    *)
(***************************************************************************)
Max(a, b) == IF a >= b THEN a ELSE b

\* f"{name} {n} {u}".strip()
FormatRow(r) == strip(r[3] \o <<SP>> \o str(r[1]) \o <<SP>> \o str(r[2]))

Header1 == C1str \o <<TAB, TAB, TAB>> \o C2str
SubHead == <<che, "shou", SP, che, hao, SP, "xian", "zhi", "sai", "ji", "shu">>
Header2 == SubHead \o <<TAB, TAB>> \o SubHead
Legend ==
  <<che, hao, "xuan", "ze", "fan", "wei", "fwcolon", "0", "fwcomma", "2", "-", "9", "9", "9",
    "wei", "xuan", hao, "ma">>
Footer ==
  <<che, hao, "ju", "ti", "shi", "yong", "ren", "jian", "lbook", SP, che, hao, "tong",
    "ji", "rbook">>

RECURSIVE JoinNumbers(_)
JoinNumbers(rows) ==
  IF rows = <<>> THEN <<>>
  ELSE IF Len(rows) = 1 THEN str(rows[1][1])
  ELSE JoinNumbers(SubSeq(rows, 1, Len(rows) - 1)) \o <<",">> \o str(rows[Len(rows)][1])

Summary(key, rows) ==
  key \o <<SP, "yi", "shi", "yong", che, hao, ":", SP>> \o JoinNumbers(rows)

RowLine(rows1, rows2, i) ==
  (IF i <= Len(rows1) THEN FormatRow(rows1[i]) ELSE <<>>)
  \o <<TAB, TAB>>
  \o (IF i <= Len(rows2) THEN FormatRow(rows2[i]) ELSE <<>>)

\* Lines 202-230: the text written for the sorted rows.
Layout(rows1, rows2) ==
  <<Header1, Header2>>
  \o [i \in 1..Max(Len(rows1), Len(rows2)) |-> RowLine(rows1, rows2, i)]
  \o <<<<>>, Legend, Summary(C1str, rows1), Summary(C2str, rows2), Footer>>

write_tables_to_txt(tbls) == Layout(sorted(tbls.C1), sorted(tbls.C2))

(***************************************************************************)
(* The inputs: car numbers, names, and the roster files a run may find.    *)
(***************************************************************************)
CarNos == {0} \cup (10..(9 + MaxNum))
FileNames == {NoName, <<"a">>}
InputNames == {NoName, <<"a">>, <<"b", che, hao>>}
Keys == {"C1", "C2"}

FileRecs == {<<n, u, nm>> : n \in CarNos, u \in 0..MAX_UNUSED, nm \in FileNames}

\* The rows of the two tables as a file lists them: at most two rows in all,
\* in any order, a number possibly twice.
FileRows ==
  {<<<<>>, <<>>>>}
  \cup {<<<<r>>, <<>>>> : r \in FileRecs} \cup {<<<<>>, <<r>>>> : r \in FileRecs}
  \cup {<<<<r, q>>, <<>>>> : r \in FileRecs, q \in FileRecs}
  \cup {<<<<r>>, <<q>>>> : r \in FileRecs, q \in FileRecs}
  \cup {<<<<>>, <<r, q>>>> : r \in FileRecs, q \in FileRecs}

RowLines(rows) == [i \in DOMAIN rows |-> FormatRow(rows[i])]

\* The sequential (block) layout: a table name, a header line, the rows.
SeqHeader == <<che, hao, SP, "xian", "zhi", "sai", "ji", "shu">>
SeqFile(rows1, rows2) ==
  <<C1str, SeqHeader>> \o RowLines(rows1) \o <<<<>>, C2str, SeqHeader>> \o RowLines(rows2)

InitFiles ==
  {SeqFile(p[1], p[2]) : p \in FileRows} \cup {Layout(p[1], p[2]) : p \in FileRows}

NoOp ==
  [mode |-> "none", pre |-> NoTables, obs |-> [C1 |-> {}, C2 |-> {}], key |-> NoKey,
   car_no |-> 0, new_unused |-> 0, name |-> NoName, nums |-> {}, removed |-> 0]

Init ==
  /\ file \in InitFiles
  /\ tables = NoTables
  /\ pc = "start"
  /\ op = NoOp
  /\ tokens = <<>>
  /\ rec = None

(***************************************************************************)
(* The steps of a run (lines 352-404).                                     *)
(***************************************************************************)
\* tables = read_tables_from_txt(file_path): at the start of a run, and at
\* the start of the next run on the file the last one wrote.
Read ==
  /\ pc \in {"start", "written"}
  /\ tables' = read_tables_from_txt(file)
  /\ pc' = IF pc = "start" THEN "loaded" ELSE "reloaded"
  /\ op' = [NoOp EXCEPT !.mode = "read", !.pre = tables]
  /\ UNCHANGED <<file, tokens, rec>>

Update(increment_absent, mode) ==
  /\ pc = "loaded"
  /\ \E input_c1 \in SUBSET CarNos, input_c2 \in SUBSET CarNos :
       /\ tables' = [C1 |-> update_table_rows(tables.C1, input_c1, MAX_UNUSED, increment_absent),
                     C2 |-> update_table_rows(tables.C2, input_c2, MAX_UNUSED, increment_absent)]
       /\ op' = [NoOp EXCEPT !.mode = mode, !.pre = tables,
                             !.obs = [C1 |-> input_c1, C2 |-> input_c2]]
  /\ pc' = "updated"
  /\ UNCHANGED <<file, tokens, rec>>

Mode1 == Update(TRUE, "1")

Mode2 == Update(FALSE, "2")

Mode3 ==
  /\ pc = "loaded"
  /\ \E key \in Keys, car_no \in CarNos, new_unused \in 0..MAX_UNUSED, name \in InputNames :
       /\ tables' = set_single_entry(tables, key, car_no, new_unused, name, MAX_UNUSED)
       /\ op' = [NoOp EXCEPT !.mode = "3", !.pre = tables, !.key = key, !.car_no = car_no,
                             !.new_unused = new_unused, !.name = name]
  /\ pc' = "updated"
  /\ UNCHANGED <<file, tokens, rec>>

\* delete_entry; with no valid number entered it returns before line 340.
Mode4 ==
  /\ pc = "loaded"
  /\ \E key \in Keys, nums \in SUBSET CarNos :
       /\ tables' = IF nums = {} THEN tables
                    ELSE [tables EXCEPT ![key] = delete_rows(tables[key], nums)]
       /\ op' = [NoOp EXCEPT !.mode = "4", !.pre = tables, !.key = key, !.nums = nums,
                             !.removed = IF nums = {} THEN 0
                                         ELSE removed_count(tables[key], nums)]
  /\ pc' = "updated"
  /\ UNCHANGED <<file, tokens, rec>>

\* Mode 5 (lines 388-395) and the write back after modes 1-4 (lines 398-402).
Write ==
  /\ pc \in {"loaded", "updated"}
  /\ file' = write_tables_to_txt(tables)
  /\ pc' = "written"
  /\ op' = NoOp
  /\ UNCHANGED <<tables, tokens, rec>>

Next == Read \/ Mode1 \/ Mode2 \/ Mode3 \/ Mode4 \/ Write

Spec == Init /\ [][Next]_vars

(***************************************************************************)
(* parse_entry_tokens applied to every short token list.                   *)
(***************************************************************************)
Tokens == {<<"0">>, <<"1", "5">>, <<"a">>, <<"2", "b">>}

TokenLists == UNION {[1..n -> Tokens] : n \in 0..MaxTokens}

InitParse ==
  /\ tokens \in TokenLists
  /\ rec = None
  /\ pc = "tokens"
  /\ file = <<>>
  /\ tables = NoTables
  /\ op = NoOp

Parse ==
  /\ pc = "tokens"
  /\ rec' = parse_entry_tokens(tokens)
  /\ pc' = "parsed"
  /\ UNCHANGED <<file, tables, op, tokens>>

SpecParse == InitParse /\ [][Parse]_vars

(***************************************************************************)
(* Vocabulary of the properties.                                           *)
(***************************************************************************)
Loaded == pc \in {"loaded", "updated", "written", "reloaded"}

Ascending(rows) == \A i, j \in DOMAIN rows : i < j => rows[i][1] <= rows[j][1]

StrictlyAscending(rows) == \A i, j \in DOMAIN rows : i < j => rows[i][1] < rows[j][1]

UniqueNumbers(rows) == \A i, j \in DOMAIN rows : rows[i][1] = rows[j][1] => i = j

Below(rows, bound) == \A i \in DOMAIN rows : rows[i][2] < bound

NonNegative(rows) == \A i \in DOMAIN rows : rows[i][2] >= 0

\* The rows of a table that carry the number n, in table order.
RowsOf(rows, n) == LET Has(r) == r[1] = n IN SelectSeq(rows, Has)

\* The rows of a table without the numbers of a set, in table order.
RowsWithout(rows, ns) == LET Other(r) == r[1] \notin ns IN SelectSeq(rows, Other)

\* The record of number n in a table: where a table read from a file lists
\* the number more than once, the last of its rows.
RecordOf(rows, n) == RowsOf(rows, n)[Len(RowsOf(rows, n))]

\* A table with only the last row of every number.
RECURSIVE LastOnly(_)
LastOnly(rows) ==
  IF rows = <<>> THEN <<>>
  ELSE IF \E j \in 2..Len(rows) : rows[j][1] = rows[1][1] THEN LastOnly(Tail(rows))
  ELSE <<rows[1]>> \o LastOnly(Tail(rows))

Other(key) == IF key = "C1" THEN "C2" ELSE "C1"

(***************************************************************************)
(* C1 as stated: every record that exists in C1 or C2 has an idle count    *)
(* of at least 0 and strictly below the expiry threshold, in every roster  *)
(* state after the file is read.                                           *)
(***************************************************************************)
C1_IdleBelowExpiry ==
  Loaded => \A k \in Keys : NonNegative(tables[k]) /\ Below(tables[k], MAX_UNUSED)

(***************************************************************************)
(* C1 amended: every idle count is at least 0; after a bulk update with    *)
(* increment every record is below the threshold; every record another     *)
(* operation creates or changes is below the threshold; and an operation   *)
(* on a roster whose records are all below the threshold yields a roster   *)
(* whose records are all below it.  A record the file gives at or above    *)
(* the threshold stays until then.                                         *)
(***************************************************************************)
C1_IdleBoundedByOperations ==
  /\ \A k \in Keys : NonNegative(tables[k])
  /\ (pc = "updated" /\ op.mode = "1") => \A k \in Keys : Below(tables[k], MAX_UNUSED)
  /\ pc = "updated" =>
       \A k \in Keys : \A i \in DOMAIN tables[k] :
         tables[k][i] \notin Range(op.pre[k]) => tables[k][i][2] < MAX_UNUSED
  /\ pc \in {"updated", "reloaded"} =>
       ((\A k \in Keys : Below(op.pre[k], MAX_UNUSED))
          => \A k \in Keys : Below(tables[k], MAX_UNUSED))

\* A bulk update with increment has run on a table that held a record at the
\* threshold, and records remain.
C1_Witness ==
  /\ pc = "updated" /\ op.mode = "1"
  /\ \E i \in DOMAIN op.pre.C1 : op.pre.C1[i][2] >= MAX_UNUSED
  /\ \E i \in DOMAIN op.pre.C1 : op.pre.C1[i][2] = MAX_UNUSED - 1
  /\ tables.C1 # <<>>

(***************************************************************************)
(* C2 as stated: the result table of every operation is strictly ascending *)
(* by number, with no two records sharing a number.                        *)
(***************************************************************************)
C2_StrictlyAscending ==
  pc \in {"loaded", "updated", "reloaded"} => \A k \in Keys : StrictlyAscending(tables[k])

(***************************************************************************)
(* C2 amended: the result table of every operation is ascending by number; *)
(* the results of update_table_rows and set_single_entry have no two       *)
(* records sharing a number; read_tables_from_txt and delete_entry keep a  *)
(* number the file lists twice, so their result is strictly ascending when *)
(* the numbers they are given are unique.                                  *)
(***************************************************************************)
C2_AscendingUniqueAfterUpdate ==
  /\ Loaded => \A k \in Keys : Ascending(tables[k])
  /\ (pc = "updated" /\ op.mode \in {"1", "2"}) =>
       \A k \in Keys : StrictlyAscending(tables[k])
  /\ (pc = "updated" /\ op.mode = "3") => StrictlyAscending(tables[op.key])
  /\ (pc = "updated" /\ op.mode = "4") =>
       (UniqueNumbers(op.pre[op.key]) => StrictlyAscending(tables[op.key]))
  /\ pc = "reloaded" =>
       \A k \in Keys : UniqueNumbers(op.pre[k]) => StrictlyAscending(tables[k])

\* The file listed a number twice and the table read from it holds both rows.
C2_Witness ==
  /\ pc = "loaded"
  /\ Len(tables.C1) = 2
  /\ tables.C1[1][1] = tables.C1[2][1]
  /\ tables.C1[1] # tables.C1[2]

(***************************************************************************)
(* C3 as stated: for a roster whose tables have unique numbers, reading    *)
(* back the text that write_tables_to_txt produced yields the same roster, *)
(* each table sorted ascending by number.                                  *)
(***************************************************************************)
C3_RoundTrip ==
  (pc = "reloaded" /\ \A k \in Keys : UniqueNumbers(op.pre[k])) =>
    tables = [k \in Keys |-> sorted(op.pre[k])]

\* C3 where it holds: the round trip of a roster none of whose names
\* contains the header marker.
C3_RoundTripPlainNames ==
  (pc = "reloaded" /\ \A k \in Keys : \A i \in DOMAIN op.pre[k] :
                        ~Contains(Marker, op.pre[k][i][3])) =>
    tables = [C1 |-> op.pre.C1, C2 |-> op.pre.C2]

(***************************************************************************)
(* C4: in update_table_rows with increment_absent=True, every existing     *)
(* number that is not observed is absent from the result when its idle     *)
(* count plus 1 reaches the threshold, and is otherwise present once, with *)
(* its idle count increased by exactly 1 and its name unchanged.           *)
(***************************************************************************)
C4_AbsentAgedOrExpired ==
  (pc = "updated" /\ op.mode = "1") =>
    \A k \in Keys : \A n \in Numbers(op.pre[k]) \ op.obs[k] :
      LET old == RecordOf(op.pre[k], n)
      IN  IF old[2] + 1 >= MAX_UNUSED
          THEN RowsOf(tables[k], n) = <<>>
          ELSE RowsOf(tables[k], n) = <<<<n, old[2] + 1, old[3]>>>>

\* One unobserved number expired at idle count threshold - 1 while another,
\* named, went from 0 to 1.
C4_Witness ==
  /\ pc = "updated" /\ op.mode = "1"
  /\ \E i, j \in DOMAIN op.pre.C1 :
       /\ op.pre.C1[i][2] = MAX_UNUSED - 1
       /\ op.pre.C1[i][1] \notin op.obs.C1
       /\ op.pre.C1[i][1] \notin Numbers(tables.C1)
       /\ op.pre.C1[j][2] = 0
       /\ op.pre.C1[j][3] # NoName
       /\ op.pre.C1[j][1] \notin op.obs.C1
       /\ <<op.pre.C1[j][1], 1, op.pre.C1[j][3]>> \in Range(tables.C1)

(***************************************************************************)
(* C5: in update_table_rows, under either policy, the result holds for     *)
(* every observed number one record with idle count 0, whose name is the   *)
(* prior name when the number existed and the empty name when it is new.   *)
(***************************************************************************)
C5_ObservedReset ==
  (pc = "updated" /\ op.mode \in {"1", "2"}) =>
    \A k \in Keys : \A n \in op.obs[k] :
      RowsOf(tables[k], n) =
        <<<<n, 0, IF n \in Numbers(op.pre[k]) THEN RecordOf(op.pre[k], n)[3] ELSE NoName>>>>

\* Under the freeze policy an observed named number at the threshold was
\* reset and a new number was added.
C5_Witness ==
  /\ pc = "updated" /\ op.mode = "2"
  /\ \E i \in DOMAIN op.pre.C2 :
       /\ op.pre.C2[i][1] \in op.obs.C2
       /\ op.pre.C2[i][2] = MAX_UNUSED
       /\ op.pre.C2[i][3] # NoName
       /\ <<op.pre.C2[i][1], 0, op.pre.C2[i][3]>> \in Range(tables.C2)
  /\ \E n \in op.obs.C2 : n \notin Numbers(op.pre.C2) /\ <<n, 0, NoName>> \in Range(tables.C2)

(***************************************************************************)
(* C6 as stated: in update_table_rows with increment_absent=False every    *)
(* existing record whose number is not observed appears in the result      *)
(* unchanged, and with an empty observed set the result equals the input   *)
(* table, for every sorted table.                                          *)
(***************************************************************************)
C6_FreezeKeepsEveryRecord ==
  (pc = "updated" /\ op.mode = "2") =>
    \A k \in Keys :
      /\ \A i \in DOMAIN op.pre[k] :
           op.pre[k][i][1] \notin op.obs[k] => op.pre[k][i] \in Range(tables[k])
      /\ op.obs[k] = {} => tables[k] = op.pre[k]

(***************************************************************************)
(* C6 amended: under the freeze policy every existing number that is not   *)
(* observed keeps its record unchanged (same idle count, same name, not    *)
(* removed); of a number the table lists more than once only the last row  *)
(* is kept.  With an empty observed set the result is the input table with *)
(* the last row of every number, which is the input table itself when its  *)
(* numbers are unique.                                                     *)
(***************************************************************************)
C6_FreezeKeepsLastRecord ==
  (pc = "updated" /\ op.mode = "2") =>
    \A k \in Keys :
      /\ \A n \in Numbers(op.pre[k]) \ op.obs[k] :
           RowsOf(tables[k], n) = <<RecordOf(op.pre[k], n)>>
      /\ op.obs[k] = {} => tables[k] = LastOnly(op.pre[k])
      /\ (op.obs[k] = {} /\ UniqueNumbers(op.pre[k])) => tables[k] = op.pre[k]

\* The freeze policy ran with nothing observed on a table of two numbers, one
\* of them one step from expiry, and the table is as it was.
C6_Witness ==
  /\ pc = "updated" /\ op.mode = "2"
  /\ op.obs.C1 = {}
  /\ Len(op.pre.C1) = 2
  /\ UniqueNumbers(op.pre.C1)
  /\ \E i \in DOMAIN op.pre.C1 : op.pre.C1[i][2] = MAX_UNUSED - 1
  /\ tables.C1 = op.pre.C1

(***************************************************************************)
(* C7: set_single_entry with an idle count below the threshold on a number *)
(* that exists replaces the stored idle count, keeps the stored name when  *)
(* the given name is empty and overwrites it when the given name is not    *)
(* empty; a number that does not exist is inserted with the given idle     *)
(* count and name.                                                         *)
(***************************************************************************)
C7_UpsertNameRule ==
  (pc = "updated" /\ op.mode = "3" /\ op.new_unused < MAX_UNUSED) =>
    LET rows == op.pre[op.key]
        nm == IF op.car_no \in Numbers(rows) /\ op.name = NoName
              THEN RecordOf(rows, op.car_no)[3]
              ELSE op.name
    IN  RowsOf(tables[op.key], op.car_no) = <<<<op.car_no, op.new_unused, nm>>>>

\* An existing named number was given a new idle count and an empty name.
C7_Witness ==
  /\ pc = "updated" /\ op.mode = "3" /\ op.new_unused < MAX_UNUSED
  /\ op.name = NoName
  /\ \E i \in DOMAIN op.pre[op.key] :
       /\ op.pre[op.key][i][1] = op.car_no
       /\ op.pre[op.key][i][3] # NoName
       /\ op.pre[op.key][i][2] # op.new_unused
       /\ <<op.car_no, op.new_unused, op.pre[op.key][i][3]>> \in Range(tables[op.key])

(***************************************************************************)
(* C8: delete_entry removes every record whose number is requested, leaves *)
(* every other record of the table and the whole other table unchanged,    *)
(* and reports as removed the number of records that were present and      *)
(* removed; a requested number that is not in the table counts 0.          *)
(***************************************************************************)
C8_DeleteCount ==
  (pc = "updated" /\ op.mode = "4") =>
    /\ tables[op.key] = RowsWithout(op.pre[op.key], op.nums)
    /\ tables[Other(op.key)] = op.pre[Other(op.key)]
    /\ op.removed =
         Cardinality({i \in DOMAIN op.pre[op.key] : op.pre[op.key][i][1] \in op.nums})

\* Two numbers were requested from a table that held only one of them, the
\* other table holding a record; 1 is reported.
C8_Witness ==
  /\ pc = "updated" /\ op.mode = "4"
  /\ Cardinality(op.nums) = 2
  /\ Len(op.pre[op.key]) = 1
  /\ Cardinality(op.nums \cap Numbers(op.pre[op.key])) = 1
  /\ op.removed = 1
  /\ tables[op.key] = <<>>
  /\ tables[Other(op.key)] # <<>>

(***************************************************************************)
(* C9 as stated: set_single_entry with an idle count at or above the       *)
(* threshold removes the number when it is present and inserts nothing,    *)
(* leaves the table exactly as it was when the number is absent, and in    *)
(* both cases leaves all other records of the table unchanged.             *)
(***************************************************************************)
C9_ForceDeleteKeepsOthers ==
  (pc = "updated" /\ op.mode = "3" /\ op.new_unused >= MAX_UNUSED) =>
    /\ op.car_no \notin Numbers(tables[op.key])
    /\ op.car_no \notin Numbers(op.pre[op.key]) => tables[op.key] = op.pre[op.key]
    /\ tables[op.key] = RowsWithout(op.pre[op.key], {op.car_no})

(***************************************************************************)
(* C9 amended: set_single_entry with an idle count at or above the         *)
(* threshold removes the number when it is present and inserts nothing;    *)
(* every other number keeps its record, of a number the table lists more   *)
(* than once only the last row; so when the number is absent the table is  *)
(* left exactly as it was provided its numbers are unique.  The other      *)
(* table is unchanged.                                                     *)
(***************************************************************************)
C9_ForceDeleteKeepsLastRecords ==
  (pc = "updated" /\ op.mode = "3" /\ op.new_unused >= MAX_UNUSED) =>
    /\ op.car_no \notin Numbers(tables[op.key])
    /\ tables[op.key] = RowsWithout(LastOnly(op.pre[op.key]), {op.car_no})
    /\ (op.car_no \notin Numbers(op.pre[op.key]) /\ UniqueNumbers(op.pre[op.key]))
         => tables[op.key] = op.pre[op.key]
    /\ tables[Other(op.key)] = op.pre[Other(op.key)]

\* A present number was removed through set_single_entry and the other
\* record of the table stayed.
C9_Witness ==
  /\ pc = "updated" /\ op.mode = "3" /\ op.new_unused >= MAX_UNUSED
  /\ op.car_no \in Numbers(op.pre[op.key])
  /\ Len(op.pre[op.key]) = 2
  /\ Len(tables[op.key]) = 1
  /\ tables[op.key][1] \in Range(op.pre[op.key])

(***************************************************************************)
(* C10: parse_entry_tokens follows the ordered resolution rule: no token   *)
(* gives no match; a numeric first token gives (t1, t2, "") when the       *)
(* second token is numeric, (t1, 0, "") when it is the only token and no   *)
(* match otherwise; a first token that is not numeric is the name and      *)
(* needs a numeric second token, giving (t2, t3, name) when a numeric      *)
(* third token is present and (t2, 0, name) otherwise.                     *)
(***************************************************************************)
Numeric(toks, i) == i <= Len(toks) /\ isdigit(toks[i])

C10_Resolution ==
  pc = "parsed" =>
    /\ tokens = <<>> => rec = None
    /\ (Numeric(tokens, 1) /\ Numeric(tokens, 2)) =>
         rec = <<int(tokens[1]), int(tokens[2]), NoName>>
    /\ (Numeric(tokens, 1) /\ Len(tokens) = 1) => rec = <<int(tokens[1]), 0, NoName>>
    /\ (Numeric(tokens, 1) /\ Len(tokens) >= 2 /\ ~Numeric(tokens, 2)) => rec = None
    /\ (tokens # <<>> /\ ~Numeric(tokens, 1) /\ ~Numeric(tokens, 2)) => rec = None
    /\ (tokens # <<>> /\ ~Numeric(tokens, 1) /\ Numeric(tokens, 2) /\ Numeric(tokens, 3)) =>
         rec = <<int(tokens[2]), int(tokens[3]), tokens[1]>>
    /\ (tokens # <<>> /\ ~Numeric(tokens, 1) /\ Numeric(tokens, 2) /\ ~Numeric(tokens, 3)) =>
         rec = <<int(tokens[2]), 0, tokens[1]>>

\* A numeric first token followed by a token that is not numeric was refused.
C10_Witness ==
  /\ pc = "parsed"
  /\ Len(tokens) >= 2
  /\ isdigit(tokens[1])
  /\ ~isdigit(tokens[2])
  /\ rec = None

====
